---- MODULE Spec2Model ----
(***************************************************************************)
(* vw::platefile::BlobManager (src/vw/Plate/BlobManager.cc): the table of  *)
(* blob locks shared by concurrent writers.  Blob ids are 0-based as in    *)
(* the code; m_blob_locks[id + 1] is the record of blob id.                *)
(***************************************************************************)
EXTENDS Integers, Sequences, FiniteSets, TLC

\* ------------------------------------------------------------------ bounds
\* Largest initial_nblobs given to the constructor (-1 and 0 are tried as well).
MaxInitialBlobs == 3
\* Largest max_blobs given to the constructor (-1 and 0 are tried as well).
MaxBlobsLimit == 3
\* Longest run of request_lock/release_lock pairs the history rr follows.
MaxRun == 4
\* Largest initial_nblobs and max_blobs of the fair specification.
MaxFairBlobs == 2

\* The writer threads calling into the manager.
Writers == {"w1", "w2"}
NoThread == "none"

\* max_blob_size is given in megabytes and stored in bytes (line 78).
BytesPerMB == 1024 * 1024
BlobSizesMB == {0, 1}

\* With max_blobs < 0 the table may grow without limit (see ReachedMaxBlobs);
\* request_lock is then called only while the table stays within GrowCap.
GrowCap == MaxBlobsLimit + 1

\* The 'size' arguments of request_lock that are tried: one byte, and one
\* byte more than a blob of one megabyte holds.
Sizes == {1, BytesPerMB + 1}

\* --------------------------------------------------------------- the state
VARIABLES
  constructed,      \* FALSE when the constructor threw ArgumentErr
  m_max_blob_size,  \* bytes
  m_max_blobs,
  m_blob_index,
  m_blob_locks,     \* sequence of BlobRecord
  m_mutex,          \* the writer that holds m_mutex, or NoThread
  pc,               \* each writer's position
  frame,            \* each writer's arguments and locals of the call in progress
  ret,              \* what the step just taken returned or threw, and to whom;
                    \* NoRet when that step completed no call
  held,             \* history: the blob ids request_lock returned to each writer
                    \* that no release_lock has unlocked since
  rr,               \* history: the current run of request_lock/release_lock pairs
                    \* that started with every blob unlocked and not full
  ctor              \* history: the arguments the constructor has just been
                    \* called with; NoCtor once a method has been called

vars == <<constructed, m_max_blob_size, m_max_blobs, m_blob_index, m_blob_locks,
          m_mutex, pc, frame, ret, held, rr, ctor>>

config == <<constructed, m_max_blob_size, m_max_blobs>>

BlobRecord(locked, current_blob_offset) ==
  [locked |-> locked, current_blob_offset |-> current_blob_offset]

NoFrame == [size |-> 0, blob_id |-> 0, blob_offset |-> 0, next_available_blob |-> 0]
NoRet == [writer |-> NoThread, op |-> "none", err |-> "none", val |-> 0, size |-> 0]
Returned(t, op, err, val, size) ==
  [writer |-> t, op |-> op, err |-> err, val |-> val, size |-> size]
NoRun == [on |-> FALSE, c0 |-> 0, n |-> 0, ids |-> <<>>]
NoCtor == [called |-> FALSE, max_blob_size |-> 0, initial_nblobs |-> 0, max_blobs |-> 0]

\* The offsets release_lock is called with: nothing written, and full.
BlobOffsets == {0, m_max_blob_size}

\* ------------------------------------------------------- private methods
\* Mutant of increment_blob_index: the index moves backwards, wrapping
\* around at the front.
increment_blob_index_Backwards(blob_index, locks) ==
  IF blob_index = 0 THEN Len(locks) - 1 ELSE blob_index - 1

\* increment_blob_index: move to the next blob, wrapping around at the end.
increment_blob_index(blob_index, locks) ==
  IF blob_index + 1 >= Len(locks) THEN 0 ELSE blob_index + 1

\* Mutants of the test: one forgets the lock flag, one takes a blob whose
\* offset has reached max_blob_size to have room left.
UnlockedAndNotFull_IgnoresLock(locks, blob_index, max_blob_size) ==
  locks[blob_index + 1].current_blob_offset < max_blob_size

UnlockedAndNotFull_FullAllowed(locks, blob_index, max_blob_size) ==
  /\ ~locks[blob_index + 1].locked
  /\ locks[blob_index + 1].current_blob_offset <= max_blob_size

\* The test of lines 37-38 and 50-51: blob is unlocked and not full.
UnlockedAndNotFull(locks, blob_index, max_blob_size) ==
  /\ ~locks[blob_index + 1].locked
  /\ locks[blob_index + 1].current_blob_offset < max_blob_size

\* Mutant of the loop: line 44 is missing, so the loop ends at once.
Search_NeverEntered(blob_index, starting_blob, locks, max_blob_size) ==
  [found |-> FALSE, blob_index |-> starting_blob]

\* The while loop of lines 46-57.
RECURSIVE Search(_, _, _, _)
Search(blob_index, starting_blob, locks, max_blob_size) ==
  IF blob_index = starting_blob
    THEN [found |-> FALSE, blob_index |-> blob_index]
    ELSE IF UnlockedAndNotFull(locks, blob_index, max_blob_size)
      THEN [found |-> TRUE, blob_index |-> blob_index]
      ELSE Search(increment_blob_index(blob_index, locks), starting_blob,
                  locks, max_blob_size)

\* Mutant of line 64: the limit is tested with > instead of >=.
ReachedMaxBlobs_OffByOne(size, max_blobs) ==
  IF max_blobs < 0 THEN FALSE ELSE size > max_blobs

\* Line 64, m_blob_locks.size() >= m_max_blobs: size() is a size_t, so
\* m_max_blobs is converted to unsigned; a negative m_max_blobs becomes a
\* number no vector size reaches.
ReachedMaxBlobs(size, max_blobs) ==
  IF max_blobs < 0 THEN FALSE ELSE size >= max_blobs

\* Mutants of get_next_available_blob: one leaves out the advance of line
\* 33, one stores the value it returns in m_blob_index when the search fails.
get_next_available_blob_NoAdvance(blob_index, locks, max_blob_size, max_blobs) ==
  LET first == blob_index IN
  IF UnlockedAndNotFull(locks, first, max_blob_size)
    THEN [result |-> first, m_blob_index |-> first, m_blob_locks |-> locks]
    ELSE
      LET s == Search(increment_blob_index(first, locks), first, locks, max_blob_size) IN
      IF s.found
        THEN [result |-> s.blob_index, m_blob_index |-> s.blob_index,
              m_blob_locks |-> locks]
        ELSE IF ReachedMaxBlobs(Len(locks), max_blobs)
          THEN [result |-> -1, m_blob_index |-> s.blob_index, m_blob_locks |-> locks]
          ELSE [result |-> Len(locks), m_blob_index |-> s.blob_index,
                m_blob_locks |-> Append(locks, BlobRecord(FALSE, 0))]

get_next_available_blob_IndexOnResult(blob_index, locks, max_blob_size, max_blobs) ==
  LET first == increment_blob_index(blob_index, locks) IN
  IF UnlockedAndNotFull(locks, first, max_blob_size)
    THEN [result |-> first, m_blob_index |-> first, m_blob_locks |-> locks]
    ELSE
      LET s == Search(increment_blob_index(first, locks), first, locks, max_blob_size) IN
      IF s.found
        THEN [result |-> s.blob_index, m_blob_index |-> s.blob_index,
              m_blob_locks |-> locks]
        ELSE IF ReachedMaxBlobs(Len(locks), max_blobs)
          THEN [result |-> -1, m_blob_index |-> -1, m_blob_locks |-> locks]
          ELSE [result |-> Len(locks), m_blob_index |-> Len(locks),
                m_blob_locks |-> Append(locks, BlobRecord(FALSE, 0))]

\* Mutant of lines 64-72: the blob is appended before the limit is tested, so
\* a failing call leaves a new record behind.
get_next_available_blob_AppendsThenFails(blob_index, locks, max_blob_size, max_blobs) ==
  LET first == increment_blob_index(blob_index, locks) IN
  IF UnlockedAndNotFull(locks, first, max_blob_size)
    THEN [result |-> first, m_blob_index |-> first, m_blob_locks |-> locks]
    ELSE
      LET s == Search(increment_blob_index(first, locks), first, locks, max_blob_size) IN
      IF s.found
        THEN [result |-> s.blob_index, m_blob_index |-> s.blob_index,
              m_blob_locks |-> locks]
        ELSE IF ReachedMaxBlobs(Len(locks), max_blobs)
          THEN [result |-> -1, m_blob_index |-> s.blob_index,
                m_blob_locks |-> Append(locks, BlobRecord(FALSE, 0))]
          ELSE [result |-> Len(locks), m_blob_index |-> s.blob_index,
                m_blob_locks |-> Append(locks, BlobRecord(FALSE, 0))]

\* Mutant of lines 68-71: growing the table runs the constructor's loop over
\* it again, so every record is reset.
get_next_available_blob_GrowthResets(blob_index, locks, max_blob_size, max_blobs) ==
  LET first == increment_blob_index(blob_index, locks) IN
  IF UnlockedAndNotFull(locks, first, max_blob_size)
    THEN [result |-> first, m_blob_index |-> first, m_blob_locks |-> locks]
    ELSE
      LET s == Search(increment_blob_index(first, locks), first, locks, max_blob_size) IN
      IF s.found
        THEN [result |-> s.blob_index, m_blob_index |-> s.blob_index,
              m_blob_locks |-> locks]
        ELSE IF ReachedMaxBlobs(Len(locks), max_blobs)
          THEN [result |-> -1, m_blob_index |-> s.blob_index, m_blob_locks |-> locks]
          ELSE [result |-> Len(locks), m_blob_index |-> s.blob_index,
                m_blob_locks |-> [i \in 1..(Len(locks) + 1) |-> BlobRecord(FALSE, 0)]]

\* Mutant of lines 59-72: when the search finds nothing m_blob_index is put
\* back to where it was before the call.
get_next_available_blob_RestoresIndex(blob_index, locks, max_blob_size, max_blobs) ==
  LET first == increment_blob_index(blob_index, locks) IN
  IF UnlockedAndNotFull(locks, first, max_blob_size)
    THEN [result |-> first, m_blob_index |-> first, m_blob_locks |-> locks]
    ELSE
      LET s == Search(increment_blob_index(first, locks), first, locks, max_blob_size) IN
      IF s.found
        THEN [result |-> s.blob_index, m_blob_index |-> s.blob_index,
              m_blob_locks |-> locks]
        ELSE IF ReachedMaxBlobs(Len(locks), max_blobs)
          THEN [result |-> -1, m_blob_index |-> blob_index, m_blob_locks |-> locks]
          ELSE [result |-> Len(locks), m_blob_index |-> blob_index,
                m_blob_locks |-> Append(locks, BlobRecord(FALSE, 0))]

\* get_next_available_blob: the value returned (-1: no blob available) and
\* the new m_blob_index and m_blob_locks.
get_next_available_blob(blob_index, locks, max_blob_size, max_blobs) ==
  LET first == increment_blob_index(blob_index, locks) IN
  IF UnlockedAndNotFull(locks, first, max_blob_size)
    THEN [result |-> first, m_blob_index |-> first, m_blob_locks |-> locks]
    ELSE
      LET s == Search(increment_blob_index(first, locks), first, locks, max_blob_size) IN
      IF s.found
        THEN [result |-> s.blob_index, m_blob_index |-> s.blob_index,
              m_blob_locks |-> locks]
        ELSE IF ReachedMaxBlobs(Len(locks), max_blobs)
          THEN [result |-> -1, m_blob_index |-> s.blob_index, m_blob_locks |-> locks]
          ELSE [result |-> Len(locks), m_blob_index |-> s.blob_index,
                m_blob_locks |-> Append(locks, BlobRecord(FALSE, 0))]

\* ------------------------------------------------------------ construction
\* Mutant of line 80: the assertion accepts initial_nblobs = 0.
BlobManager_AcceptsZero(max_blob_size, initial_nblobs, max_blobs) ==
  IF initial_nblobs >= 0
    THEN [constructed |-> TRUE,
          m_max_blob_size |-> max_blob_size * BytesPerMB,
          m_max_blobs |-> max_blobs,
          m_blob_index |-> 0,
          m_blob_locks |-> [i \in 1..initial_nblobs |-> BlobRecord(FALSE, 0)]]
    ELSE [constructed |-> FALSE,
          m_max_blob_size |-> max_blob_size * BytesPerMB,
          m_max_blobs |-> max_blobs,
          m_blob_index |-> 0,
          m_blob_locks |-> <<>>]

\* BlobManager::BlobManager: VW_ASSERT throws ArgumentErr when
\* initial_nblobs < 1; otherwise initial_nblobs unlocked, empty blobs.
BlobManager(max_blob_size, initial_nblobs, max_blobs) ==
  IF initial_nblobs >= 1
    THEN [constructed |-> TRUE,
          m_max_blob_size |-> max_blob_size * BytesPerMB,
          m_max_blobs |-> max_blobs,
          m_blob_index |-> 0,
          m_blob_locks |-> [i \in 1..initial_nblobs |-> BlobRecord(FALSE, 0)]]
    ELSE [constructed |-> FALSE,
          m_max_blob_size |-> max_blob_size * BytesPerMB,
          m_max_blobs |-> max_blobs,
          m_blob_index |-> 0,
          m_blob_locks |-> <<>>]

\* The state once the constructor has run with these arguments.
Constructed(max_blob_size, initial_nblobs, max_blobs) ==
  LET o == BlobManager(max_blob_size, initial_nblobs, max_blobs) IN
  /\ constructed = o.constructed
  /\ m_max_blob_size = o.m_max_blob_size
  /\ m_max_blobs = o.m_max_blobs
  /\ m_blob_index = o.m_blob_index
  /\ m_blob_locks = o.m_blob_locks
  /\ m_mutex = NoThread
  /\ pc = [t \in Writers |-> "idle"]
  /\ frame = [t \in Writers |-> NoFrame]
  /\ ret = NoRet
  /\ held = [t \in Writers |-> {}]
  /\ rr = NoRun
  /\ ctor = [called |-> TRUE, max_blob_size |-> max_blob_size,
             initial_nblobs |-> initial_nblobs, max_blobs |-> max_blobs]

Init ==
  \E mb \in BlobSizesMB, initial_nblobs \in -1..MaxInitialBlobs,
     max_blobs \in -1..MaxBlobsLimit :
    Constructed(mb, initial_nblobs, max_blobs)

\* The constructions the fair specification starts from.
InitFair ==
  \E mb \in BlobSizesMB, initial_nblobs \in 1..MaxFairBlobs,
     max_blobs \in 0..MaxFairBlobs :
    Constructed(mb, initial_nblobs, max_blobs)

\* ------------------------------------------------------------------ mutex
\* Mutant of the lock: it does not wait for the mutex to be free.
MutexLock_NoWait(t) ==
  m_mutex' = t

\* Mutex::Lock lock(m_mutex): blocks until the mutex is free, then takes it.
MutexLock(t) ==
  /\ m_mutex = NoThread
  /\ m_mutex' = t

\* ~Lock(): the scoped lock is released on return and on throw.
MutexUnlock(t) ==
  /\ m_mutex = t
  /\ m_mutex' = NoThread

\* ------------------------------------------------------- history helpers
AllIdle == \A t \in Writers : pc[t] = "idle"

BlobIds == 0..(Len(m_blob_locks) - 1)

AllFree ==
  \A id \in BlobIds : UnlockedAndNotFull(m_blob_locks, id, m_max_blob_size)

NoneEligible ==
  \A id \in BlobIds : ~UnlockedAndNotFull(m_blob_locks, id, m_max_blob_size)

InRequestLock(t) == pc[t] \in {"rl_lock", "rl_get", "rl_check"}

InCritical(t) ==
  pc[t] \in {"rl_get", "rl_check", "rel_body", "nb_ret", "mbs_ret"}

\* -------------------------------------------------------------- request_lock
\* A writer calls request_lock(size) and reaches line 113.
RequestLockCall(t, size) ==
  /\ constructed
  /\ pc[t] = "idle"
  /\ m_max_blobs < 0 =>
       Len(m_blob_locks) + Cardinality({u \in Writers : InRequestLock(u)}) < GrowCap
  /\ pc' = [pc EXCEPT ![t] = "rl_lock"]
  /\ frame' = [frame EXCEPT ![t] = [NoFrame EXCEPT !.size = size]]
  /\ rr' = IF AllIdle /\ AllFree
             THEN IF rr.on /\ Len(rr.ids) < MaxRun
                    THEN rr
                    ELSE [on |-> TRUE, c0 |-> m_blob_index,
                          n |-> Len(m_blob_locks), ids |-> <<>>]
             ELSE NoRun
  /\ ret' = NoRet
  /\ ctor' = NoCtor
  /\ UNCHANGED <<config, m_blob_index, m_blob_locks, m_mutex, held>>

\* Line 113.
RequestLockAcquire(t) ==
  /\ pc[t] = "rl_lock"
  /\ MutexLock(t)
  /\ pc' = [pc EXCEPT ![t] = "rl_get"]
  /\ ret' = NoRet
  /\ UNCHANGED <<config, ctor, m_blob_index, m_blob_locks, frame, held, rr>>

\* Line 117.
RequestLockGetNext(t) ==
  /\ pc[t] = "rl_get"
  /\ LET g == get_next_available_blob(m_blob_index, m_blob_locks,
                                      m_max_blob_size, m_max_blobs) IN
       /\ m_blob_index' = g.m_blob_index
       /\ m_blob_locks' = g.m_blob_locks
       /\ frame' = [frame EXCEPT ![t].next_available_blob = g.result]
  /\ pc' = [pc EXCEPT ![t] = "rl_check"]
  /\ ret' = NoRet
  /\ UNCHANGED <<config, ctor, m_mutex, held, rr>>

\* Mutant of the throw: as the comment of lines 115-116 has it, the call
\* waits for a release and rechecks instead of throwing.
RequestLockThrow_Waits(t) ==
  /\ pc[t] = "rl_check"
  /\ frame[t].next_available_blob = -1
  /\ m_mutex = t
  /\ m_mutex' = NoThread
  /\ pc' = [pc EXCEPT ![t] = "rl_lock"]
  /\ ret' = [writer |-> NoThread, op |-> "none", err |-> "none", val |-> 0, size |-> 0]
  /\ rr' = [on |-> FALSE, c0 |-> 0, n |-> 0, ids |-> <<>>]
  /\ UNCHANGED <<constructed, m_max_blob_size, m_max_blobs, ctor, m_blob_index,
                 m_blob_locks, frame, held>>

\* Mutant of the throw: the mutex is locked and unlocked by hand and the
\* exception leaves the method before the unlock.
RequestLockThrow_KeepsMutex(t) ==
  /\ pc[t] = "rl_check"
  /\ frame[t].next_available_blob = -1
  /\ m_mutex = t
  /\ ret' = [writer |-> t, op |-> "request_lock", err |-> "BlobLimitErr",
             val |-> 0, size |-> frame[t].size]
  /\ pc' = [pc EXCEPT ![t] = "idle"]
  /\ frame' = [frame EXCEPT ![t] = [size |-> 0, blob_id |-> 0, blob_offset |-> 0,
                                    next_available_blob |-> 0]]
  /\ rr' = [on |-> FALSE, c0 |-> 0, n |-> 0, ids |-> <<>>]
  /\ UNCHANGED <<constructed, m_max_blob_size, m_max_blobs, ctor, m_blob_index,
                 m_blob_locks, m_mutex, held>>

\* Lines 118-120: vw_throw(BlobLimitErr); the scoped lock unwinds.
RequestLockThrow(t) ==
  /\ pc[t] = "rl_check"
  /\ frame[t].next_available_blob = -1
  /\ MutexUnlock(t)
  /\ ret' = Returned(t, "request_lock", "BlobLimitErr", 0, frame[t].size)
  /\ pc' = [pc EXCEPT ![t] = "idle"]
  /\ frame' = [frame EXCEPT ![t] = NoFrame]
  /\ rr' = NoRun
  /\ UNCHANGED <<config, ctor, m_blob_index, m_blob_locks, held>>

\* Mutant of lines 123-125: locking a blob also rewinds its offset to 0.
RequestLockReturn_RewindsOffset(t) ==
  /\ pc[t] = "rl_check"
  /\ frame[t].next_available_blob # -1
  /\ m_blob_locks' = [m_blob_locks EXCEPT
                        ![frame[t].next_available_blob + 1] = BlobRecord(TRUE, 0)]
  /\ ret' = [writer |-> t, op |-> "request_lock", err |-> "none",
             val |-> frame[t].next_available_blob, size |-> frame[t].size]
  /\ held' = [held EXCEPT ![t] = @ \cup {frame[t].next_available_blob}]
  /\ rr' = IF rr.on
             THEN [rr EXCEPT !.ids = Append(@, frame[t].next_available_blob)]
             ELSE rr
  /\ m_mutex = t
  /\ m_mutex' = NoThread
  /\ pc' = [pc EXCEPT ![t] = "idle"]
  /\ frame' = [frame EXCEPT ![t] = [size |-> 0, blob_id |-> 0, blob_offset |-> 0,
                                    next_available_blob |-> 0]]
  /\ UNCHANGED <<constructed, m_max_blob_size, m_max_blobs, ctor, m_blob_index>>

\* Lines 123-125: lock the blob and return its id.
RequestLockReturn(t) ==
  /\ pc[t] = "rl_check"
  /\ frame[t].next_available_blob # -1
  /\ LET id == frame[t].next_available_blob IN
       /\ m_blob_locks' = [m_blob_locks EXCEPT ![id + 1].locked = TRUE]
       /\ ret' = Returned(t, "request_lock", "none", id, frame[t].size)
       /\ held' = [held EXCEPT ![t] = @ \cup {id}]
       /\ rr' = IF rr.on THEN [rr EXCEPT !.ids = Append(@, id)] ELSE rr
  /\ MutexUnlock(t)
  /\ pc' = [pc EXCEPT ![t] = "idle"]
  /\ frame' = [frame EXCEPT ![t] = NoFrame]
  /\ UNCHANGED <<config, ctor, m_blob_index>>

\* -------------------------------------------------------------- release_lock
\* A writer calls release_lock(blob_id, blob_offset) and reaches line 130.
ReleaseLockCall(t, blob_id, blob_offset) ==
  /\ constructed
  /\ pc[t] = "idle"
  /\ blob_id \in BlobIds
  /\ pc' = [pc EXCEPT ![t] = "rel_lock"]
  /\ frame' = [frame EXCEPT ![t] = [NoFrame EXCEPT !.blob_id = blob_id,
                                                   !.blob_offset = blob_offset]]
  /\ rr' = IF /\ rr.on
              /\ AllIdle
              /\ rr.ids # <<>>
              /\ blob_id = rr.ids[Len(rr.ids)]
              /\ blob_offset < m_max_blob_size
             THEN rr
             ELSE NoRun
  /\ ret' = NoRet
  /\ ctor' = NoCtor
  /\ UNCHANGED <<config, m_blob_index, m_blob_locks, m_mutex, held>>

\* Line 130.
ReleaseLockAcquire(t) ==
  /\ pc[t] = "rel_lock"
  /\ MutexLock(t)
  /\ pc' = [pc EXCEPT ![t] = "rel_body"]
  /\ ret' = NoRet
  /\ UNCHANGED <<config, ctor, m_blob_index, m_blob_locks, frame, held, rr>>

\* Mutant of lines 131-132: a blob that is not locked is left as it is.
ReleaseLockBody_ChecksLock(t) ==
  /\ pc[t] = "rel_body"
  /\ m_blob_locks' =
       IF m_blob_locks[frame[t].blob_id + 1].locked
         THEN [m_blob_locks EXCEPT
                 ![frame[t].blob_id + 1] = BlobRecord(FALSE, frame[t].blob_offset)]
         ELSE m_blob_locks
  /\ held' = [u \in Writers |-> held[u] \ {frame[t].blob_id}]
  /\ ret' = [writer |-> t, op |-> "release_lock", err |-> "none",
             val |-> frame[t].blob_id, size |-> 0]
  /\ m_mutex = t
  /\ m_mutex' = NoThread
  /\ pc' = [pc EXCEPT ![t] = "idle"]
  /\ frame' = [frame EXCEPT ![t] = [size |-> 0, blob_id |-> 0, blob_offset |-> 0,
                                    next_available_blob |-> 0]]
  /\ UNCHANGED <<constructed, m_max_blob_size, m_max_blobs, ctor, m_blob_index, rr>>

\* Lines 131-134.  notify_all wakes the waiters of m_blob_release_condition;
\* nothing in the class waits on it.
ReleaseLockBody(t) ==
  /\ pc[t] = "rel_body"
  /\ LET id == frame[t].blob_id IN
       /\ m_blob_locks' = [m_blob_locks EXCEPT
                             ![id + 1] = BlobRecord(FALSE, frame[t].blob_offset)]
       /\ held' = [u \in Writers |-> held[u] \ {id}]
       /\ ret' = Returned(t, "release_lock", "none", id, 0)
  /\ MutexUnlock(t)
  /\ pc' = [pc EXCEPT ![t] = "idle"]
  /\ frame' = [frame EXCEPT ![t] = NoFrame]
  /\ UNCHANGED <<config, ctor, m_blob_index, rr>>

\* ------------------------------------------------------------------ queries
NumBlobsCall(t) ==
  /\ constructed
  /\ pc[t] = "idle"
  /\ pc' = [pc EXCEPT ![t] = "nb_lock"]
  /\ ret' = NoRet
  /\ ctor' = NoCtor
  /\ UNCHANGED <<config, m_blob_index, m_blob_locks, m_mutex, frame, held, rr>>

\* Line 93.
NumBlobsAcquire(t) ==
  /\ pc[t] = "nb_lock"
  /\ MutexLock(t)
  /\ pc' = [pc EXCEPT ![t] = "nb_ret"]
  /\ ret' = NoRet
  /\ UNCHANGED <<config, ctor, m_blob_index, m_blob_locks, frame, held, rr>>

\* Mutant of line 94: the blobs "currently in use" are taken to be the
\* locked ones.
NumBlobsReturn_CountsLocked(t) ==
  /\ pc[t] = "nb_ret"
  /\ m_mutex = t
  /\ m_mutex' = NoThread
  /\ ret' = [writer |-> t, op |-> "num_blobs", err |-> "none",
             val |-> Cardinality({i \in 1..Len(m_blob_locks) : m_blob_locks[i].locked}),
             size |-> 0]
  /\ pc' = [pc EXCEPT ![t] = "idle"]
  /\ UNCHANGED <<constructed, m_max_blob_size, m_max_blobs, ctor, m_blob_index,
                 m_blob_locks, frame, held, rr>>

\* Line 94.
NumBlobsReturn(t) ==
  /\ pc[t] = "nb_ret"
  /\ MutexUnlock(t)
  /\ ret' = Returned(t, "num_blobs", "none", Len(m_blob_locks), 0)
  /\ pc' = [pc EXCEPT ![t] = "idle"]
  /\ UNCHANGED <<config, ctor, m_blob_index, m_blob_locks, frame, held, rr>>

MaxBlobSizeCall(t) ==
  /\ constructed
  /\ pc[t] = "idle"
  /\ pc' = [pc EXCEPT ![t] = "mbs_lock"]
  /\ ret' = NoRet
  /\ ctor' = NoCtor
  /\ UNCHANGED <<config, m_blob_index, m_blob_locks, m_mutex, frame, held, rr>>

\* Line 98.
MaxBlobSizeAcquire(t) ==
  /\ pc[t] = "mbs_lock"
  /\ MutexLock(t)
  /\ pc' = [pc EXCEPT ![t] = "mbs_ret"]
  /\ ret' = NoRet
  /\ UNCHANGED <<config, ctor, m_blob_index, m_blob_locks, frame, held, rr>>

\* Line 99.
MaxBlobSizeReturn(t) ==
  /\ pc[t] = "mbs_ret"
  /\ MutexUnlock(t)
  /\ ret' = Returned(t, "max_blob_size", "none", m_max_blob_size, 0)
  /\ pc' = [pc EXCEPT ![t] = "idle"]
  /\ UNCHANGED <<config, ctor, m_blob_index, m_blob_locks, frame, held, rr>>

\* ------------------------------------------------------------ specifications
\* The steps of a call once it has been made.
Step(t) ==
  \/ RequestLockAcquire(t)
  \/ RequestLockGetNext(t)
  \/ RequestLockThrow(t)
  \/ RequestLockReturn(t)
  \/ ReleaseLockAcquire(t)
  \/ ReleaseLockBody(t)
  \/ NumBlobsAcquire(t)
  \/ NumBlobsReturn(t)
  \/ MaxBlobSizeAcquire(t)
  \/ MaxBlobSizeReturn(t)

\* Writers that release only the blobs they hold.
Next ==
  \E t \in Writers :
    \/ \E size \in Sizes : RequestLockCall(t, size)
    \/ \E blob_id \in held[t], blob_offset \in BlobOffsets :
         ReleaseLockCall(t, blob_id, blob_offset)
    \/ NumBlobsCall(t)
    \/ MaxBlobSizeCall(t)
    \/ Step(t)

Spec == Init /\ [][Next]_vars

\* Writers that call release_lock with any blob id of the table.
NextAny ==
  \E t \in Writers :
    \/ \E size \in Sizes : RequestLockCall(t, size)
    \/ \E blob_id \in BlobIds, blob_offset \in BlobOffsets :
         ReleaseLockCall(t, blob_id, blob_offset)
    \/ NumBlobsCall(t)
    \/ MaxBlobSizeCall(t)
    \/ Step(t)

SpecAny == Init /\ [][NextAny]_vars

\* A writer that waits for m_mutex gets it in the end (the mutex is handed
\* out fairly), and a writer inside a critical section keeps running.
Acquire(t) ==
  \/ RequestLockAcquire(t)
  \/ ReleaseLockAcquire(t)
  \/ NumBlobsAcquire(t)
  \/ MaxBlobSizeAcquire(t)

Critical(t) ==
  \/ RequestLockGetNext(t)
  \/ RequestLockThrow(t)
  \/ RequestLockReturn(t)
  \/ ReleaseLockBody(t)
  \/ NumBlobsReturn(t)
  \/ MaxBlobSizeReturn(t)

Fairness ==
  \A t \in Writers : SF_vars(Acquire(t)) /\ WF_vars(Critical(t))

SpecFair == InitFair /\ [][Next]_vars /\ Fairness

\* ------------------------------------------------------------ step shapes
\* Writer t's get_next_available_blob (line 117) is this step.
GetNextStep(t) == pc[t] = "rl_get" /\ pc'[t] = "rl_check"

\* Writer t's request_lock returns a blob id in this step.
ReturnStep(t) ==
  /\ pc[t] = "rl_check"
  /\ pc'[t] = "idle"
  /\ ret'.err = "none"

\* Writer t's release_lock takes effect in this step.
ReleaseStep(t) == pc[t] = "rel_body" /\ pc'[t] = "idle"

\* request_lock has just returned a blob id.
JustLocked == ret.op = "request_lock" /\ ret.err = "none"

\* request_lock has just thrown BlobLimitErr.
JustFailed == ret.op = "request_lock" /\ ret.err = "BlobLimitErr"

\* ------------------------------------------------------------------- C1
\* C1: while writers release only blobs they hold, a blob id returned by
\* request_lock stays locked until its release_lock takes effect, it is held
\* by at most one writer, and request_lock never returns an id that some
\* writer (the caller included) still holds.
ExclusiveOwnership ==
  [][ /\ \A t \in Writers : \A id \in held'[t] :
           /\ id \in 0..(Len(m_blob_locks') - 1)
           /\ m_blob_locks'[id + 1].locked
      /\ \A t, u \in Writers : t # u => held'[t] \cap held'[u] = {}
      /\ \A t \in Writers : ReturnStep(t) =>
           \A u \in Writers : ret'.val \notin held[u] ]_vars

\* Both writers hold a blob, the second one just handed out.
C1Witness ==
  /\ JustLocked
  /\ \A t \in Writers : held[t] # {}
  /\ \E u \in Writers : u # ret.writer /\ ret.val \notin held[u]

\* ------------------------------------------------------------------- C2
\* C2: get_next_available_blob reports "no blob" (and request_lock throws
\* BlobLimitErr) exactly when every blob is locked or full and the table has
\* max_blobs entries or more.  Stated for blobs of positive size.
FailsIffExhausted ==
  [][ \A t \in Writers : (GetNextStep(t) /\ m_max_blob_size > 0) =>
        ( (frame'[t].next_available_blob = -1)
          <=> (NoneEligible /\ Len(m_blob_locks) >= m_max_blobs) ) ]_vars

\* ------------------------------------------------------------------- C3
\* C3: the table never holds more than max_blobs blobs.  Stated for a
\* positive blob size and a positive max_blobs.
BlobCountWithinLimit ==
  (constructed /\ m_max_blob_size > 0 /\ m_max_blobs >= 1) =>
    Len(m_blob_locks) <= m_max_blobs

\* ------------------------------------------------------------------- C4
\* C4: when no existing blob is unlocked and not full and the table is below
\* max_blobs, get_next_available_blob appends exactly one unlocked record
\* with offset 0 and request_lock locks and returns it, its id being the old
\* size; and the table grows only in such a call, by one.
GrowthOnlyWhenNoneEligible ==
  [][ /\ \A t \in Writers :
           (GetNextStep(t) /\ NoneEligible /\ Len(m_blob_locks) < m_max_blobs) =>
             /\ m_blob_locks' = Append(m_blob_locks, BlobRecord(FALSE, 0))
             /\ frame'[t].next_available_blob = Len(m_blob_locks)
      /\ \A t \in Writers : ReturnStep(t) =>
           /\ ret'.val = frame[t].next_available_blob
           /\ m_blob_locks' =
                [m_blob_locks EXCEPT ![frame[t].next_available_blob + 1].locked = TRUE]
      /\ Len(m_blob_locks') # Len(m_blob_locks) =>
           /\ NoneEligible
           /\ \E t \in Writers : GetNextStep(t)
           /\ m_blob_locks' = Append(m_blob_locks, BlobRecord(FALSE, 0)) ]_vars

\* A writer is about to lock the blob its call has just appended, below the
\* limit: the search index is left elsewhere.
C4Witness ==
  \E t \in Writers :
    /\ pc[t] = "rl_check"
    /\ frame[t].next_available_blob = Len(m_blob_locks) - 1
    /\ m_blob_index # frame[t].next_available_blob
    /\ Len(m_blob_locks) <= m_max_blobs
    /\ m_max_blob_size > 0

MutualExclusion ==
  /\ \A t, u \in Writers : (InCritical(t) /\ InCritical(u)) => t = u
  /\ \A t \in Writers : InCritical(t) <=> m_mutex = t
  /\ \A t \in Writers :
       (pc[t] = "rl_check" /\ frame[t].next_available_blob # -1) =>
         /\ frame[t].next_available_blob \in BlobIds
         /\ ~m_blob_locks[frame[t].next_available_blob + 1].locked

\* One writer has selected a blob while the other waits for the mutex in
\* request_lock.
C6Witness ==
  \E t, u \in Writers :
    /\ pc[t] = "rl_check"
    /\ frame[t].next_available_blob # -1
    /\ pc[u] = "rl_lock"

SufficientSpace ==
  (JustLocked /\ m_max_blob_size > 0
     /\ m_max_blobs >= 1 /\ Len(m_blob_locks) <= m_max_blobs) =>
    m_blob_locks[ret.val + 1].current_blob_offset + ret.size <= m_max_blob_size

\* ------------------------------------------------------------------- C9
\* C9: m_blob_index is always an index of the table.
BlobIndexInRange ==
  constructed => (0 <= m_blob_index /\ m_blob_index < Len(m_blob_locks))

\* The index has moved off 0 and a request_lock has failed or grown the
\* table.
C9Witness ==
  /\ m_blob_index > 0
  /\ \E t \in Writers :
       /\ pc[t] = "rl_check"
       /\ \/ frame[t].next_available_blob = -1
          \/ frame[t].next_available_blob # m_blob_index

\* ------------------------------------------------------------------ C10
\* C10: in a run of request_lock/release_lock pairs that starts with all n
\* blobs unlocked and not full and releases below max_blob_size, the k-th
\* request_lock returns (c0 + k) mod n, no id repeats within n calls, and
\* the table keeps its n blobs.
RoundRobin ==
  rr.on =>
    /\ Len(m_blob_locks) = rr.n
    /\ \A k \in 1..Len(rr.ids) : rr.ids[k] = (rr.c0 + k) % rr.n
    /\ \A i, j \in 1..Len(rr.ids) :
         (i < j /\ j - i < rr.n) => rr.ids[i] # rr.ids[j]

\* A run over three blobs that started off index 0 and has wrapped around.
C10Witness ==
  /\ rr.on
  /\ rr.n = 3
  /\ rr.c0 # 0
  /\ Len(rr.ids) = MaxRun
  /\ AllIdle /\ AllFree

\* ------------------------------------------------------------------ C11
\* A manager built with initial_nblobs = max_blobs and a positive blob size,
\* whose writers call request_lock (and the queries) and never release_lock.
InitCap ==
  \E mb \in BlobSizesMB \ {0}, n \in 1..MaxInitialBlobs :
    n <= MaxBlobsLimit /\ Constructed(mb, n, n)

NextCap ==
  \E t \in Writers :
    \/ \E size \in Sizes : RequestLockCall(t, size)
    \/ NumBlobsCall(t)
    \/ MaxBlobSizeCall(t)
    \/ RequestLockAcquire(t)
    \/ RequestLockGetNext(t)
    \/ RequestLockThrow(t)
    \/ RequestLockReturn(t)
    \/ NumBlobsAcquire(t)
    \/ NumBlobsReturn(t)
    \/ MaxBlobSizeAcquire(t)
    \/ MaxBlobSizeReturn(t)

SpecCap == InitCap /\ [][NextCap]_vars

\* The ids request_lock has returned so far (nothing is released in SpecCap).
HeldIds == UNION {held[t] : t \in Writers}

\* C11: from N = initial_nblobs = max_blobs unlocked empty blobs and with no
\* release_lock, a request_lock succeeds exactly while fewer than N have
\* succeeded, each returns an id of 0..N-1 that no earlier call returned, and
\* once all N ids are out request_lock throws BlobLimitErr; the table keeps
\* its N blobs throughout.
ExhaustionAtCap ==
  /\ Len(m_blob_locks) = m_max_blobs
  /\ \A t \in Writers : pc[t] = "rl_check" =>
       LET r == frame[t].next_available_blob IN
       /\ (r = -1) <=> (HeldIds = BlobIds)
       /\ r # -1 => r \in BlobIds \ HeldIds
  /\ JustLocked => (ret.val \in held[ret.writer] /\ HeldIds \subseteq BlobIds)
  /\ JustFailed => (HeldIds = BlobIds /\ Cardinality(HeldIds) = m_max_blobs)

\* Three blobs, all three ids handed out, both writers holding some, and the
\* fourth request_lock has just thrown.
C11Witness ==
  /\ JustFailed
  /\ Len(m_blob_locks) = 3
  /\ m_max_blobs = 3
  /\ HeldIds = {0, 1, 2}
  /\ \A t \in Writers : held[t] # {}

\* ------------------------------------------------------------------ C12
\* The offsets release_lock is called with when a blob is written in
\* several turns: nothing written, one byte short of full, and full.
WideOffsets ==
  {0, m_max_blob_size}
    \cup (IF m_max_blob_size > 0 THEN {m_max_blob_size - 1} ELSE {})

\* Writers that release only the blobs they hold, with any of the wide
\* offsets: release_lock stores the offset unchecked (line 131).
NextWide ==
  \E t \in Writers :
    \/ \E size \in Sizes : RequestLockCall(t, size)
    \/ \E blob_id \in held[t], blob_offset \in WideOffsets :
         ReleaseLockCall(t, blob_id, blob_offset)
    \/ NumBlobsCall(t)
    \/ MaxBlobSizeCall(t)
    \/ Step(t)

SpecWide == InitFair /\ [][NextWide]_vars

\* release_lock has just returned.
JustReleased == ret.op = "release_lock"

\* C12 as claimed: no step lowers the offset of a blob.
OffsetNeverDecreases ==
  [][ \A id \in BlobIds :
        m_blob_locks'[id + 1].current_blob_offset
          >= m_blob_locks[id + 1].current_blob_offset ]_vars

\* C12 as amended: the offset of a blob changes only in release_lock of that
\* blob, which stores the caller's blob_offset unchecked; so no step lowers
\* an offset unless it is a release_lock called with a blob_offset below the
\* blob's current offset.
OffsetSetOnlyByRelease ==
  [][ \A id \in BlobIds :
        LET before == m_blob_locks[id + 1].current_blob_offset
            after == m_blob_locks'[id + 1].current_blob_offset IN
        /\ after # before =>
             \E t \in Writers : /\ ReleaseStep(t)
                                /\ frame[t].blob_id = id
                                /\ after = frame[t].blob_offset
        /\ (\A t \in Writers : ReleaseStep(t) =>
              frame[t].blob_offset
                >= m_blob_locks[frame[t].blob_id + 1].current_blob_offset)
             => after >= before ]_vars

\* A release has reported growth to one byte short of full while the other
\* blob of the table is locked with its offset untouched.
C12Witness ==
  /\ JustReleased
  /\ m_max_blob_size > 0
  /\ Len(m_blob_locks) = 2
  /\ m_blob_locks[ret.val + 1].current_blob_offset = m_max_blob_size - 1
  /\ \E id \in BlobIds \ {ret.val} :
       /\ m_blob_locks[id + 1].locked
       /\ m_blob_locks[id + 1].current_blob_offset = 0

\* ------------------------------------------------------------------ C13
\* C13: a request_lock that fails changes no record and not the size of the
\* table: neither taking the mutex, nor the failing search, nor the throw
\* touches m_blob_locks or hands out a blob; the call ends with BlobLimitErr
\* thrown to its caller, in the step that follows the search.
FailureLocksNothing ==
  [][ \A t \in Writers :
        /\ (pc[t] = "rl_lock" /\ pc'[t] # "rl_lock") =>
             m_blob_locks' = m_blob_locks
        /\ (GetNextStep(t) /\ frame'[t].next_available_blob = -1) =>
             /\ m_blob_locks' = m_blob_locks
             /\ held' = held
        /\ (pc[t] = "rl_check" /\ frame[t].next_available_blob = -1) =>
             /\ m_blob_locks' = m_blob_locks
             /\ held' = held
             /\ pc'[t] \in {"rl_check", "idle"}
             /\ pc'[t] = "idle" =>
                  ret' = Returned(t, "request_lock", "BlobLimitErr", 0, frame[t].size)
    ]_vars

\* request_lock has thrown over a table of one locked blob and one unlocked
\* full blob, while the other writer waits in release_lock.
C13Witness ==
  /\ JustFailed
  /\ Len(m_blob_locks) = 2
  /\ m_blob_locks[1].locked
  /\ ~m_blob_locks[2].locked
  /\ m_blob_locks[2].current_blob_offset >= m_max_blob_size
  /\ m_max_blob_size > 0
  /\ \E u \in Writers : pc[u] = "rel_lock"

\* ------------------------------------------------------------------ C14
\* C14: the constructor called with initial_nblobs < 1 throws ArgumentErr
\* and leaves no manager (no method is ever called on it); called with
\* initial_nblobs >= 1 it leaves exactly initial_nblobs records, all unlocked
\* with offset 0, m_blob_index = 0 and max_blob_size() = max_blob_size
\* megabytes in bytes.
ConstructorContract ==
  /\ ctor.called =>
       /\ ctor.initial_nblobs < 1 => ~constructed
       /\ ctor.initial_nblobs >= 1 =>
            /\ constructed
            /\ Len(m_blob_locks) = ctor.initial_nblobs
            /\ \A id \in BlobIds :
                 /\ ~m_blob_locks[id + 1].locked
                 /\ m_blob_locks[id + 1].current_blob_offset = 0
            /\ m_blob_index = 0
            /\ m_max_blob_size = ctor.max_blob_size * 1048576
  /\ ~constructed =>
       /\ ctor.called
       /\ ctor.initial_nblobs < 1
       /\ AllIdle
       /\ ret = NoRet
  /\ ret.op = "max_blob_size" =>
       /\ ret.val = m_max_blob_size
       /\ ret.val \in {mb * 1048576 : mb \in BlobSizesMB}

\* The constructor has thrown on a negative initial_nblobs.
C14Witness ==
  /\ ctor.called
  /\ ctor.initial_nblobs = -1
  /\ ctor.max_blob_size = 1
  /\ ~constructed

\* ------------------------------------------------------------------ C15
\* C15: the table is append-only.  No step shortens it; a step lengthens it
\* by at most one record, only as the get_next_available_blob of a
\* request_lock, which the call runs once; no step of release_lock,
\* num_blobs or max_blob_size changes its length; and a step that lengthens
\* it leaves the record of every blob already there unchanged.
AppendOnly ==
  [][ /\ Len(m_blob_locks') >= Len(m_blob_locks)
      /\ Len(m_blob_locks') <= Len(m_blob_locks) + 1
      /\ Len(m_blob_locks') > Len(m_blob_locks) =>
           /\ \E t \in Writers : GetNextStep(t)
           /\ \A id \in BlobIds : m_blob_locks'[id + 1] = m_blob_locks[id + 1]
      /\ \A t \in Writers :
           /\ pc[t] = "rl_check" => pc'[t] \in {"rl_check", "idle"}
           /\ (pc[t] \in {"rel_lock", "rel_body", "nb_lock", "nb_ret",
                          "mbs_lock", "mbs_ret"} /\ pc'[t] # pc[t]) =>
                Len(m_blob_locks') = Len(m_blob_locks) ]_vars

\* The table has just grown to three blobs: blob 0 is still locked and blob
\* 1 still unlocked and full.
C15Witness ==
  \E t \in Writers :
    /\ pc[t] = "rl_check"
    /\ Len(m_blob_locks) = 3
    /\ frame[t].next_available_blob = 2
    /\ m_blob_index # 2
    /\ m_blob_locks[1].locked
    /\ ~m_blob_locks[2].locked
    /\ m_blob_locks[2].current_blob_offset >= m_max_blob_size
    /\ m_max_blob_size > 0
    /\ m_blob_locks[3] = BlobRecord(FALSE, 0)

\* ------------------------------------------------------------------ C16
\* C16: no step of num_blobs or max_blob_size changes the table, the search
\* index or the configuration; num_blobs returns the size of the table and
\* max_blob_size returns m_max_blob_size, so calls between which no
\* request_lock or release_lock acts return the same value; and
\* m_max_blob_size is never changed, so max_blob_size returns the same value
\* in every state.
QueriesArePure ==
  [][ /\ \A t \in Writers :
           ( /\ pc'[t] # pc[t]
             /\ \/ pc[t] \in {"nb_lock", "nb_ret", "mbs_lock", "mbs_ret"}
                \/ pc'[t] \in {"nb_lock", "mbs_lock"} ) =>
             /\ m_blob_locks' = m_blob_locks
             /\ m_blob_index' = m_blob_index
             /\ constructed' = constructed
             /\ m_max_blobs' = m_max_blobs
             /\ held' = held
      /\ \A t \in Writers : (pc[t] = "nb_ret" /\ pc'[t] # pc[t]) =>
           /\ pc'[t] = "idle"
           /\ ret' = Returned(t, "num_blobs", "none", Len(m_blob_locks), 0)
      /\ \A t \in Writers : (pc[t] = "mbs_ret" /\ pc'[t] # pc[t]) =>
           /\ pc'[t] = "idle"
           /\ ret' = Returned(t, "max_blob_size", "none", m_max_blob_size, 0)
      /\ m_max_blob_size' = m_max_blob_size ]_vars

\* num_blobs has returned 3 while one blob is locked, the search index is
\* off 0 and the other writer waits for the mutex in max_blob_size.
C16Witness ==
  /\ ret.op = "num_blobs"
  /\ ret.val = 3
  /\ m_blob_index > 0
  /\ Cardinality({id \in BlobIds : m_blob_locks[id + 1].locked}) = 1
  /\ \E u \in Writers : pc[u] = "mbs_lock"

\* ------------------------------------------------------------------ C17
\* The first blob that is unlocked and not full among start, start + 1, ...
\* taken modulo the size of the table, each blob looked at once.
FirstEligibleFrom(start) ==
  LET n == Len(m_blob_locks)
      ok(id) == /\ ~m_blob_locks[id + 1].locked
                /\ m_blob_locks[id + 1].current_blob_offset < m_max_blob_size
      k == CHOOSE k \in 0..(n - 1) :
             /\ ok((start + k) % n)
             /\ \A j \in 0..(k - 1) : ~ok((start + j) % n)
  IN (start + k) % n

\* C17: when some blob of the table is unlocked and not full,
\* get_next_available_blob returns the first such blob in cyclic order from
\* (m_blob_index + 1) mod size, leaves m_blob_index on it and leaves the
\* table alone; request_lock returns that blob.
ScanOrder ==
  [][ \A t \in Writers :
        /\ (GetNextStep(t) /\ ~NoneEligible) =>
             /\ frame'[t].next_available_blob =
                  FirstEligibleFrom((m_blob_index + 1) % Len(m_blob_locks))
             /\ m_blob_index' = frame'[t].next_available_blob
             /\ m_blob_locks' = m_blob_locks
        /\ ReturnStep(t) =>
             /\ ret'.val = frame[t].next_available_blob
             /\ m_blob_index' = m_blob_index ]_vars

\* The search has passed over locked blob 1 and taken blob 2 although blob
\* 0, lower in the table, is unlocked and not full.
C17Witness ==
  \E t \in Writers :
    /\ pc[t] = "rl_check"
    /\ Len(m_blob_locks) = 3
    /\ frame[t].next_available_blob = 2
    /\ m_blob_index = 2
    /\ m_blob_locks[2].locked
    /\ ~m_blob_locks[1].locked
    /\ m_blob_locks[1].current_blob_offset < m_max_blob_size

\* ------------------------------------------------------------------ C18
\* Writer t waits for m_mutex at the start of a method.
Waiting(t) == pc[t] \in {"rl_lock", "rel_lock", "nb_lock", "mbs_lock"}

\* C18: a writer that is outside every method, or only waiting to enter
\* one, does not hold m_mutex; when a method has just returned or thrown
\* (BlobLimitErr included) the mutex is free; and whenever the mutex is free
\* every waiting writer can take it, so a failed request_lock blocks nobody.
MutexReleasedOnExit ==
  /\ \A t \in Writers : (pc[t] = "idle" \/ Waiting(t)) => m_mutex # t
  /\ ret # NoRet => m_mutex = NoThread
  /\ JustFailed => (m_mutex = NoThread /\ pc[ret.writer] = "idle")
  /\ m_mutex = NoThread =>
       \A u \in Writers : Waiting(u) => ENABLED Acquire(u)

\* request_lock has just thrown while the other writer waits for the mutex
\* in num_blobs.
C18Witness ==
  /\ JustFailed
  /\ \E u \in Writers : u # ret.writer /\ pc[u] = "nb_lock"

\* ------------------------------------------------------------------ C19
\* The offsets of the callers that check nothing: nothing written (below
\* any offset stored before), and one byte past the end of a blob.
LooseOffsets == {0, m_max_blob_size + 1}

\* Writers that call release_lock with any blob id of the table, held or
\* not, locked or not, and any of the loose offsets: release_lock checks
\* neither (lines 129-134).
NextLoose ==
  \E t \in Writers :
    \/ \E size \in Sizes : RequestLockCall(t, size)
    \/ \E blob_id \in BlobIds, blob_offset \in LooseOffsets :
         ReleaseLockCall(t, blob_id, blob_offset)
    \/ NumBlobsCall(t)
    \/ MaxBlobSizeCall(t)
    \/ Step(t)

SpecLoose == InitFair /\ [][NextLoose]_vars

\* C19: release_lock(blob_id, blob_offset) on any blob of the table,
\* whatever its lock flag and whatever blob_offset, returns normally having
\* set that blob's offset to blob_offset and its lock flag to false, and
\* having changed no other record, not the size of the table, not
\* m_blob_index and not the configuration.
ReleaseUnchecked ==
  [][ \A t \in Writers : ReleaseStep(t) =>
        LET id == frame[t].blob_id IN
        /\ Len(m_blob_locks') = Len(m_blob_locks)
        /\ m_blob_locks'[id + 1].current_blob_offset = frame[t].blob_offset
        /\ ~m_blob_locks'[id + 1].locked
        /\ \A other \in BlobIds \ {id} :
             m_blob_locks'[other + 1] = m_blob_locks[other + 1]
        /\ m_blob_index' = m_blob_index
        /\ config' = config
        /\ ret'.writer = t /\ ret'.op = "release_lock" /\ ret'.err = "none" ]_vars

\* release_lock has stored an offset past the end of a blob while the other
\* blob stays locked, and the other writer is calling release_lock on the
\* blob just unlocked.
C19Witness ==
  /\ JustReleased
  /\ Len(m_blob_locks) = 2
  /\ m_blob_locks[ret.val + 1].current_blob_offset = m_max_blob_size + 1
  /\ ~m_blob_locks[ret.val + 1].locked
  /\ \E id \in BlobIds \ {ret.val} : m_blob_locks[id + 1].locked
  /\ \E u \in Writers : /\ u # ret.writer
                        /\ pc[u] = "rel_lock"
                        /\ frame[u].blob_id = ret.val

\* ------------------------------------------------------------------ C20
\* C20: when no blob of the table is unlocked and not full,
\* get_next_available_blob either fails or appends a blob, and in both cases
\* leaves m_blob_index at (m_blob_index + 1) mod n, n the size of the table
\* before the call: a failed call moves the index (whenever n > 1), and after
\* growth the index is not on the new blob; the throw or return that follows
\* does not move it.
IndexAfterMiss ==
  [][ \A t \in Writers :
        /\ (GetNextStep(t) /\ NoneEligible) =>
             LET n == Len(m_blob_locks)
                 r == frame'[t].next_available_blob IN
             /\ r \in {-1, n}
             /\ m_blob_index' = (m_blob_index + 1) % n
             /\ (r = -1 /\ n > 1) => m_blob_index' # m_blob_index
             /\ r = n => (m_blob_index' # r /\ Len(m_blob_locks') = n + 1)
        /\ (pc[t] = "rl_check" /\ pc'[t] = "idle") =>
             m_blob_index' = m_blob_index ]_vars

\* request_lock has thrown over two locked blobs, both held by the other
\* writer, and the index has moved on to blob 1.
C20Witness ==
  /\ JustFailed
  /\ Len(m_blob_locks) = 2
  /\ m_blob_index = 1
  /\ \E u \in Writers : u # ret.writer /\ held[u] = {0, 1}
  /\ m_max_blob_size > 0

====
